---- MODULE Spec2Model ----
(***************************************************************************)
(* A model of oslo_messaging/_drivers/pika_driver/pika_message.py: the     *)
(* outgoing messages (PikaOutgoingMessage, RpcPikaOutgoingMessage), the    *)
(* publish path with its retrier, the reply wait of an RPC call, and the   *)
(* incoming messages that decode an envelope.                              *)
(***************************************************************************)
EXTENDS Integers, Sequences, FiniteSets, TLC

(***************************************************************************)
(* Bounds of the model.                                                    *)
(***************************************************************************)
\* number of concurrent callers (threads that each run one send or reply)
NumCallers == 2
\* expiration times are drawn from 0..MaxTime
MaxTime == 3
\* largest value drawn for rpc_reply_retry_attempts
MaxRetryAttempts == 2
\* cap on the _publish invocations of one send (an unbounded retrier)
MaxPublishAttempts == 3

\* self.msg_id = None: the value no generated message id equals
NoId == 0

Callers == 1..NumCallers
MsgIds == 1..NumCallers
Times == 0..MaxTime
\* time.time() runs from 0 to one instant past the last expiration time
ClockEnd == MaxTime + 1

(***************************************************************************)
(* The semantic error kinds and the raw failures of the client libraries.  *)
(***************************************************************************)
MessagingTimeout == "MessagingTimeout"
MessageRejectedException == "MessageRejectedException"
RoutingException == "RoutingException"
ExchangeNotFoundException == "ExchangeNotFoundException"
ConnectionException == "ConnectionException"
TimeoutConnectionException == "TimeoutConnectionException"

\* what conn.channel.publish can do in a `with pool.acquire()` block
PublishRaw ==
  {"ok", "NackError", "UnroutableError", "ChannelClosed404",
   "ChannelClosedOther", "ChannelClosedNoArgs", "ConnectionClosed",
   "socket.timeout"}
\* what pool.acquire can do
AcquireRaw == {"ok", "pika_pool.Timeout", "AMQPConnectionError"}

\* pika_pool.Connection.connectivity_errors
connectivity_errors ==
  {"AMQPConnectionError", "ConnectionClosed", "ChannelClosed404",
   "ChannelClosedOther", "ChannelClosedNoArgs"}

\* a test that takes every closed channel for a missing exchange
IsChannelClosedAny(raw) ==
  raw \in {"ChannelClosed404", "ChannelClosedOther", "ChannelClosedNoArgs"}
\* isinstance(e, ChannelClosed) and e.args and e.args[0] == 404
IsChannelClosed404(raw) == raw = "ChannelClosed404"

\* the except clauses of _publish, in their order
MapPublishError(raw) ==
  IF raw = "NackError" THEN MessageRejectedException
  ELSE IF raw = "UnroutableError" THEN RoutingException
  ELSE IF raw = "pika_pool.Timeout" THEN MessagingTimeout
  ELSE IF raw \in connectivity_errors
       THEN IF IsChannelClosed404(raw) THEN ExchangeNotFoundException
            ELSE ConnectionException
  ELSE TimeoutConnectionException

\* isinstance(ex, pika_drv_exc.ConnectionException): the exception classes
\* are declared in pika_exceptions.py; the kinds are distinct there
IsConnectionException(kind) == kind = ConnectionException

(***************************************************************************)
(* The retrier: retrying.retry(stop_max_attempt_number, retry_on_exception)*)
(***************************************************************************)
NoRetrier == [present |-> FALSE, bounded |-> FALSE, stop_max_attempt_number |-> 0]

\* a retry predicate that lets every failure be retried
on_exception_always(ex) == TRUE
\* on_exception of RpcPikaIncomingMessage.reply
on_exception(ex) == IsConnectionException(ex)

\* retrier = retrying.retry(...) if rpc_reply_retry_attempts else None
ReplyRetrier(rpc_reply_retry_attempts) ==
  IF rpc_reply_retry_attempts = 0 THEN NoRetrier
  ELSE [present |-> TRUE,
        bounded |-> rpc_reply_retry_attempts # -1,
        stop_max_attempt_number |->
          IF rpc_reply_retry_attempts = -1 THEN 0
          ELSE rpc_reply_retry_attempts]

\* retrying's stop_after_attempt: no further attempt once attempt_number
\* reaches stop_max_attempt_number; never stops when it is None
retrier_stop(retrier, attempt_number) ==
  retrier.bounded /\ attempt_number >= retrier.stop_max_attempt_number

\* publish = self._publish if retrier is None else retrier(self._publish):
\* is the failed attempt followed by another one
ShouldRetry(retrier, attempt_number, ex) ==
  /\ retrier.present
  /\ on_exception(ex)
  /\ ~retrier_stop(retrier, attempt_number)

(***************************************************************************)
(* State.                                                                  *)
(***************************************************************************)
VARIABLES
  now,            \* time.time()
  pc,             \* where each caller is
  call,           \* the arguments of each caller's send or reply
  msg_id,         \* the local msg_id of RpcPikaOutgoingMessage.send
  self_msg_id,    \* the attribute self.msg_id of the outgoing message
  uuids,          \* how many uuid4() message ids were generated
  waiters,        \* the reply listener's registry: the ids with a waiter
  future,         \* the pending-result slot of each message id
  inflight,       \* requests the broker took that no reply answered yet
  attempt,        \* the retrier's attempt_number
  conn,           \* does the caller hold a pooled connection
  exc,            \* the exception in the except block of the reply wait
  send_outcome,   \* how the send ended
  outcome,        \* how the caller's entry point ended
  lookups,        \* get_reply_qname calls of the caller
  acquires,       \* pool.acquire calls of the caller
  publishes,      \* conn.channel.publish calls of the caller
  errs,           \* the mapped kind each failed _publish attempt raised
  expired_at_start, \* was the expiration time in the past at the start
  wait_end,       \* how the reply wait ended
  resolved,       \* per id, how often a reply resolved its slot
  removed,        \* per id, how often unregister removed its entry
  discarded,      \* replies that found no entry
  wait_start,     \* time.time() when the caller called future.result
  wait_timeout,   \* the timeout the caller gave to future.result
  answered,       \* per id, the caller whose request the resolving reply answers
  last_raw,       \* the raw failure of the last failed _publish attempt
  self_message,   \* the attribute message of the outgoing message
  self_context,   \* the attribute context of the outgoing message
  message0,       \* the payload as the sender handed it over
  wire,           \* the envelope on the wire
  incoming        \* the incoming message built from the envelope

engine_vars ==
  <<now, pc, call, msg_id, self_msg_id, uuids, waiters, future, inflight,
    attempt, conn, exc, send_outcome, outcome, lookups, acquires, publishes,
    errs, expired_at_start, wait_end, resolved, removed, discarded,
    wait_start, wait_timeout, answered, last_raw>>

codec_vars == <<self_message, self_context, message0, wire, incoming>>

vars == <<engine_vars, codec_vars>>

NoOutcome == [status |-> "none", value |-> "none"]
Returned(v) == [status |-> "returned", value |-> v]
Raised(e) == [status |-> "raised", value |-> e]

NoFuture == [state |-> "NONE", kind |-> "none", value |-> "none"]
PendingFuture == [state |-> "PENDING", kind |-> "none", value |-> "none"]
FinishedFuture(kind, v) == [state |-> "FINISHED", kind |-> kind, value |-> v]

\* what a server can answer
ReplyResults == {"r1", "r2"}
ReplyFailures == {"RemoteError", "ValueError"}

NoCall ==
  [kind |-> "none", bounded |-> FALSE, expiration_time |-> 0,
   retrier |-> NoRetrier, mandatory |-> FALSE, started |-> 0]

\* no caller has called anything yet
NoCalls ==
  /\ pc = [c \in Callers |-> "idle"]
  /\ call = [c \in Callers |-> NoCall]
  /\ msg_id = [c \in Callers |-> NoId]
  /\ self_msg_id = [c \in Callers |-> NoId]
  /\ uuids = 0
  /\ waiters = {}
  /\ future = [i \in MsgIds |-> NoFuture]
  /\ inflight = {}
  /\ attempt = [c \in Callers |-> 0]
  /\ conn = [c \in Callers |-> FALSE]
  /\ exc = [c \in Callers |-> "none"]
  /\ send_outcome = [c \in Callers |-> NoOutcome]
  /\ outcome = [c \in Callers |-> NoOutcome]
  /\ lookups = [c \in Callers |-> 0]
  /\ acquires = [c \in Callers |-> 0]
  /\ publishes = [c \in Callers |-> 0]
  /\ errs = [c \in Callers |-> <<>>]
  /\ expired_at_start = [c \in Callers |-> FALSE]
  /\ wait_end = [c \in Callers |-> "none"]
  /\ resolved = [i \in MsgIds |-> 0]
  /\ removed = [i \in MsgIds |-> 0]
  /\ discarded = 0
  /\ wait_start = [c \in Callers |-> 0]
  /\ wait_timeout = [c \in Callers |-> 0]
  /\ answered = [i \in MsgIds |-> NoId]
  /\ last_raw = [c \in Callers |-> "none"]

InitEngine == now = 0 /\ NoCalls

(***************************************************************************)
(* Helpers shared by the entry points.                                     *)
(***************************************************************************)
Expirations ==
  {[bounded |-> FALSE, at |-> 0]} \cup {[bounded |-> TRUE, at |-> t] : t \in Times}

\* the retriers a caller of send passes: none, or one retrying connection
\* failures
CallerRetriers == {NoRetrier, ReplyRetrier(MaxRetryAttempts)}

\* timeout = None if expiration_time is None else expiration_time - time.time()
Timeout(c) == call[c].expiration_time - now

\* a check that never finds the deadline passed
timeout_expired_never(bounded, timeout) == FALSE
\* if timeout is not None and timeout < 0
timeout_expired(bounded, timeout) == bounded /\ timeout < 0

Begin(c, kind, e, retrier, mandatory) ==
  /\ call' = [call EXCEPT ![c] =
       [kind |-> kind, bounded |-> e.bounded, expiration_time |-> e.at,
        retrier |-> retrier, mandatory |-> mandatory, started |-> now]]
  /\ expired_at_start' = [expired_at_start EXCEPT ![c] = e.bounded /\ e.at < now]

\* the kinds _publish raises, every one a subclass of Exception
MappedKinds ==
  {MessagingTimeout, MessageRejectedException, RoutingException,
   ExchangeNotFoundException, ConnectionException, TimeoutConnectionException}

\* an except clause that catches connection failures only
caught_by_reply_connection_only(kind) == IsConnectionException(kind)
\* except Exception: in reply()
caught_by_reply(kind) == kind \in MappedKinds

\* the send raises `kind` to its caller; reply() catches and logs it
SendRaises(c, kind) ==
  /\ pc' = [pc EXCEPT ![c] = "done"]
  /\ send_outcome' = [send_outcome EXCEPT ![c] = Raised(kind)]
  /\ outcome' = [outcome EXCEPT ![c] =
       IF call[c].kind = "reply" /\ caught_by_reply(kind)
       THEN Returned("logged") ELSE Raised(kind)]

\* the counters and histories of one send keep what the last
\* MaxPublishAttempts attempts did
Inc(n) == IF n < MaxPublishAttempts THEN n + 1 ELSE n
Record(history, x) ==
  IF Len(history) < MaxPublishAttempts THEN Append(history, x)
  ELSE Append(Tail(history), x)

\* a _publish attempt met the failure `raw` and raised `kind`: the retrier
\* repeats the attempt or lets the exception through
AttemptFails(c, raw, kind) ==
  /\ errs' = [errs EXCEPT ![c] = Record(@, kind)]
  /\ last_raw' = [last_raw EXCEPT ![c] = raw]
  /\ IF ShouldRetry(call[c].retrier, attempt[c], kind)
     THEN /\ attempt' = [attempt EXCEPT ![c] = Inc(@)]
          /\ pc' = [pc EXCEPT ![c] = "publish"]
          /\ UNCHANGED <<send_outcome, outcome>>
     ELSE /\ SendRaises(c, kind)
          /\ UNCHANGED attempt

\* a budget computed once, when the call started
wait_budget_at_start(c) == call[c].expiration_time - call[c].started
\* expiration_time - time.time(), the argument of future.result
wait_budget(c) == call[c].expiration_time - now

\* _do_send returned: the caller calls future.result with the time that is
\* left, or is done
SendReturns(c) ==
  /\ send_outcome' = [send_outcome EXCEPT ![c] = Returned("None")]
  /\ IF call[c].kind = "rpc_call"
     THEN /\ pc' = [pc EXCEPT ![c] = "wait"]
          /\ wait_start' = [wait_start EXCEPT ![c] = now]
          /\ wait_timeout' = [wait_timeout EXCEPT ![c] = wait_budget(c)]
          /\ UNCHANGED outcome
     ELSE /\ pc' = [pc EXCEPT ![c] = "done"]
          /\ outcome' = [outcome EXCEPT ![c] = Returned("None")]
          /\ UNCHANGED <<wait_start, wait_timeout>>

(***************************************************************************)
(* The entry points.                                                       *)
(***************************************************************************)
\* PikaOutgoingMessage.send
PikaSend(c) ==
  /\ pc[c] = "idle"
  /\ \E e \in Expirations, r \in CallerRetriers, mandatory \in BOOLEAN :
       Begin(c, "send", e, r, mandatory)
  /\ pc' = [pc EXCEPT ![c] = "publish"]
  /\ attempt' = [attempt EXCEPT ![c] = 1]
  /\ UNCHANGED <<now, msg_id, self_msg_id, uuids, waiters, future, inflight,
                 conn, exc, send_outcome, outcome, lookups, acquires,
                 publishes, errs, wait_end, resolved, removed, discarded>>
  /\ UNCHANGED <<wait_start, wait_timeout, answered, last_raw>>
  /\ UNCHANGED codec_vars

\* RpcPikaIncomingMessage.reply, up to the call of send
Reply(c) ==
  /\ pc[c] = "idle"
  /\ \E e \in Expirations, n \in -1..MaxRetryAttempts, has_reply_to \in BOOLEAN :
       /\ Begin(c, "reply", e, ReplyRetrier(n), FALSE)
       /\ IF has_reply_to
          THEN /\ pc' = [pc EXCEPT ![c] = "publish"]
               /\ attempt' = [attempt EXCEPT ![c] = 1]
               /\ UNCHANGED outcome
          ELSE /\ pc' = [pc EXCEPT ![c] = "done"]
               /\ outcome' = [outcome EXCEPT ![c] = Returned("None")]
               /\ UNCHANGED attempt
  /\ UNCHANGED <<now, msg_id, self_msg_id, uuids, waiters, future, inflight,
                 conn, exc, send_outcome, lookups, acquires,
                 publishes, errs, wait_end, resolved, removed, discarded>>
  /\ UNCHANGED <<wait_start, wait_timeout, answered, last_raw>>
  /\ UNCHANGED codec_vars

\* RpcPikaOutgoingMessage.send without a reply listener
RpcCast(c) ==
  /\ pc[c] = "idle"
  /\ \E e \in Expirations, r \in CallerRetriers :
       Begin(c, "rpc_cast", e, r, TRUE)
  /\ pc' = [pc EXCEPT ![c] = "publish"]
  /\ attempt' = [attempt EXCEPT ![c] = 1]
  /\ UNCHANGED <<now, msg_id, self_msg_id, uuids, waiters, future, inflight,
                 conn, exc, send_outcome, outcome, lookups, acquires,
                 publishes, errs, wait_end, resolved, removed, discarded>>
  /\ UNCHANGED <<wait_start, wait_timeout, answered, last_raw>>
  /\ UNCHANGED codec_vars

\* a generator that gives every call the same id
uuid4_constant(generated) == 1
\* uuid.uuid4().hex: an id no earlier call of uuid4 gave
uuid4(generated) == generated + 1

\* RpcPikaOutgoingMessage.send with a reply listener, up to get_reply_qname,
\* its expiration_time and retrier drawn from the given sets:
\* expiration_time - time.time() is a TypeError when expiration_time is None
RpcCallWith(c, expirations, retriers) ==
  /\ pc[c] = "idle"
  /\ uuids < NumCallers
  /\ uuids' = uuids + 1
  /\ msg_id' = [msg_id EXCEPT ![c] = uuid4(uuids)]
  /\ \E e \in expirations, r \in retriers :
       /\ Begin(c, "rpc_call", e, r, TRUE)
       /\ IF e.bounded
          THEN /\ lookups' = [lookups EXCEPT ![c] = @ + 1]
               /\ pc' = [pc EXCEPT ![c] = "register"]
               /\ UNCHANGED outcome
          ELSE /\ pc' = [pc EXCEPT ![c] = "done"]
               /\ outcome' = [outcome EXCEPT ![c] = Raised("TypeError")]
               /\ UNCHANGED lookups
  /\ UNCHANGED <<now, self_msg_id, waiters, future, inflight, attempt,
                 conn, exc, send_outcome, acquires,
                 publishes, errs, wait_end, resolved, removed, discarded>>
  /\ UNCHANGED <<wait_start, wait_timeout, answered, last_raw>>
  /\ UNCHANGED codec_vars

RpcCall(c) == RpcCallWith(c, Expirations, CallerRetriers)

(***************************************************************************)
(* The reply listener (pika_listener.py): the waiter registry.             *)
(***************************************************************************)
\* a send that goes on to publish without a waiter registered
PublishUnregistered(c) ==
  /\ pc[c] = "register"
  /\ pc' = [pc EXCEPT ![c] = "publish"]
  /\ attempt' = [attempt EXCEPT ![c] = 1]
  /\ UNCHANGED <<now, call, msg_id, self_msg_id, uuids, waiters, future,
                 inflight, conn, exc, send_outcome, outcome, lookups, acquires,
                 publishes, errs, expired_at_start, wait_end, resolved,
                 removed, discarded, wait_start, wait_timeout, answered, last_raw>>
  /\ UNCHANGED codec_vars
\* reply_listener.register_reply_waiter(msg_id=msg_id)
RegisterWaiter(c) ==
  /\ pc[c] = "register"
  /\ waiters' = waiters \cup {msg_id[c]}
  /\ future' = [future EXCEPT ![msg_id[c]] = PendingFuture]
  /\ pc' = [pc EXCEPT ![c] = "publish"]
  /\ attempt' = [attempt EXCEPT ![c] = 1]
  /\ UNCHANGED <<now, call, msg_id, self_msg_id, uuids, inflight, conn, exc,
                 send_outcome, outcome, lookups, acquires, publishes, errs,
                 expired_at_start, wait_end, resolved, removed, discarded>>
  /\ UNCHANGED <<wait_start, wait_timeout, answered, last_raw>>
  /\ UNCHANGED codec_vars

\* the registry after unregister_reply_waiter(id)
unregister_reply_waiter(registry, id) == registry \ {id}

\* the reply to the request that caller c published under message id i
\* arrives: the waiter of i, when there is one, is taken out of the registry
\* and resolved; otherwise the reply is dropped
ReplyArrives(i, c) ==
  /\ <<i, c>> \in inflight
  /\ inflight' = inflight \ {<<i, c>>}
  /\ IF i \in waiters
     THEN /\ waiters' = waiters \ {i}
          /\ \E v \in ReplyResults \cup ReplyFailures :
               future' = [future EXCEPT ![i] =
                 FinishedFuture(IF v \in ReplyResults THEN "result"
                                ELSE "exception", v)]
          /\ resolved' = [resolved EXCEPT ![i] = @ + 1]
          /\ answered' = [answered EXCEPT ![i] = c]
          /\ UNCHANGED discarded
     ELSE /\ discarded' = discarded + 1
          /\ UNCHANGED <<waiters, future, resolved, answered>>
  /\ UNCHANGED <<now, pc, call, msg_id, self_msg_id, uuids, attempt, conn,
                 exc, send_outcome, outcome, lookups, acquires, publishes,
                 errs, expired_at_start, wait_end, removed,
                 wait_start, wait_timeout, last_raw>>
  /\ UNCHANGED codec_vars

(***************************************************************************)
(* PikaOutgoingMessage._publish, one attempt in three steps.               *)
(***************************************************************************)
\* the deadline check that opens _publish
PublishBegin(c) ==
  /\ pc[c] = "publish"
  /\ IF timeout_expired(call[c].bounded, Timeout(c))
     THEN AttemptFails(c, "expired", MessagingTimeout)
     ELSE /\ pc' = [pc EXCEPT ![c] = "acquire"]
          /\ UNCHANGED <<attempt, errs, last_raw, send_outcome, outcome>>
  /\ UNCHANGED <<now, call, msg_id, self_msg_id, uuids, waiters, future,
                 inflight, conn, exc, lookups, acquires, publishes,
                 expired_at_start, wait_end, resolved, removed, discarded,
                 wait_start, wait_timeout, answered>>
  /\ UNCHANGED codec_vars

\* with pool.acquire(timeout=timeout) as conn: pika_pool.Timeout needs a
\* timeout to run out
Acquire(c) ==
  /\ pc[c] = "acquire"
  /\ acquires' = [acquires EXCEPT ![c] = Inc(@)]
  /\ \E raw \in AcquireRaw :
       /\ raw = "pika_pool.Timeout" => call[c].bounded
       /\ IF raw = "ok"
          THEN /\ conn' = [conn EXCEPT ![c] = TRUE]
               /\ pc' = [pc EXCEPT ![c] = "channel_publish"]
               /\ UNCHANGED <<attempt, errs, last_raw, send_outcome, outcome>>
          ELSE /\ AttemptFails(c, raw, MapPublishError(raw))
               /\ UNCHANGED conn
  /\ UNCHANGED <<now, call, msg_id, self_msg_id, uuids, waiters, future,
                 inflight, exc, lookups, publishes,
                 expired_at_start, wait_end, resolved, removed, discarded,
                 wait_start, wait_timeout, answered>>
  /\ UNCHANGED codec_vars

\* the pool takes back the connection its context manager was given
pool_release(held) == FALSE
\* a with block that keeps the connection when it is left
with_exit_keeps(held) == held
\* leaving the block of `with pool.acquire(timeout=timeout) as conn`, by its
\* end or by an exception: the context manager's __exit__ runs
with_exit(held) == pool_release(held)

\* conn.channel.publish(...): the broker takes the request, or the call
\* fails and the exception leaves the with block; an unroutable message is
\* reported only for a mandatory publish
ChannelPublish(c) ==
  /\ pc[c] = "channel_publish"
  /\ publishes' = [publishes EXCEPT ![c] = Inc(@)]
  /\ \E raw \in PublishRaw :
       /\ raw = "UnroutableError" => call[c].mandatory
       /\ IF raw = "ok"
          THEN /\ pc' = [pc EXCEPT ![c] = "confirm"]
               /\ inflight' = IF call[c].kind = "rpc_call"
                              THEN inflight \cup {<<msg_id[c], c>>}
                              ELSE inflight
               /\ UNCHANGED <<conn, attempt, errs, last_raw, send_outcome, outcome>>
          ELSE /\ conn' = [conn EXCEPT ![c] = with_exit(@)]
               /\ AttemptFails(c, raw, MapPublishError(raw))
               /\ UNCHANGED inflight
  /\ UNCHANGED <<now, call, msg_id, self_msg_id, uuids, waiters, future,
                 exc, lookups, acquires,
                 expired_at_start, wait_end, resolved, removed, discarded,
                 wait_start, wait_timeout, answered>>
  /\ UNCHANGED codec_vars

\* the broker's confirmation ends conn.channel.publish, the with block is
\* left, and _publish and _do_send return
PublishConfirmed(c) ==
  /\ pc[c] = "confirm"
  /\ conn' = [conn EXCEPT ![c] = with_exit(@)]
  /\ SendReturns(c)
  /\ UNCHANGED <<now, call, msg_id, self_msg_id, uuids, waiters, future,
                 inflight, attempt, exc, lookups, acquires, publishes, errs,
                 expired_at_start, wait_end, resolved, removed, discarded,
                 answered, last_raw>>
  /\ UNCHANGED codec_vars

(***************************************************************************)
(* The reply wait of RpcPikaOutgoingMessage.send.                          *)
(***************************************************************************)
\* what future.result() gives for a finished future
future_result(f) == Returned(f.value)

\* a translation that turns every exception of the wait into the timeout
translate_all(e) == MessagingTimeout
\* if isinstance(e, futures.TimeoutError): e = exceptions.MessagingTimeout()
translate(e) == IF e = "futures.TimeoutError" THEN MessagingTimeout ELSE e

\* the argument of unregister_reply_waiter in the except block: self.msg_id
unregister_arg(c) == self_msg_id[c]

\* future.result(expiration_time - time.time()) finds the future finished
WaitResult(c) ==
  /\ pc[c] = "wait"
  /\ future[msg_id[c]].state = "FINISHED"
  /\ wait_end' = [wait_end EXCEPT ![c] = "resolved"]
  /\ IF future[msg_id[c]].kind = "result"
     THEN /\ outcome' = [outcome EXCEPT ![c] = future_result(future[msg_id[c]])]
          /\ pc' = [pc EXCEPT ![c] = "done"]
          /\ UNCHANGED exc
     ELSE /\ exc' = [exc EXCEPT ![c] = future[msg_id[c]].value]
          /\ pc' = [pc EXCEPT ![c] = "except"]
          /\ UNCHANGED outcome
  /\ UNCHANGED <<now, call, msg_id, self_msg_id, uuids, waiters, future,
                 inflight, attempt, conn, send_outcome, lookups, acquires,
                 publishes, errs, expired_at_start, resolved, removed,
                 discarded>>
  /\ UNCHANGED <<wait_start, wait_timeout, answered, last_raw>>
  /\ UNCHANGED codec_vars

\* the wait runs out with the future still pending
WaitTimeout(c) ==
  /\ pc[c] = "wait"
  /\ future[msg_id[c]].state = "PENDING"
  /\ now - wait_start[c] >= wait_timeout[c]
  /\ wait_end' = [wait_end EXCEPT ![c] = "timeout"]
  /\ exc' = [exc EXCEPT ![c] = "futures.TimeoutError"]
  /\ pc' = [pc EXCEPT ![c] = "except"]
  /\ UNCHANGED <<now, call, msg_id, self_msg_id, uuids, waiters, future,
                 inflight, attempt, conn, send_outcome, outcome, lookups,
                 acquires, publishes, errs, expired_at_start, resolved,
                 removed, discarded>>
  /\ UNCHANGED <<wait_start, wait_timeout, answered, last_raw>>
  /\ UNCHANGED codec_vars

\* another BaseException ends the wait (the waiting thread is interrupted)
WaitInterrupted(c) ==
  /\ pc[c] = "wait"
  /\ future[msg_id[c]].state = "PENDING"
  /\ wait_end' = [wait_end EXCEPT ![c] = "interrupted"]
  /\ exc' = [exc EXCEPT ![c] = "KeyboardInterrupt"]
  /\ pc' = [pc EXCEPT ![c] = "except"]
  /\ UNCHANGED <<now, call, msg_id, self_msg_id, uuids, waiters, future,
                 inflight, attempt, conn, send_outcome, outcome, lookups,
                 acquires, publishes, errs, expired_at_start, resolved,
                 removed, discarded>>
  /\ UNCHANGED <<wait_start, wait_timeout, answered, last_raw>>
  /\ UNCHANGED codec_vars

\* except BaseException as e: unregister, translate, raise e
Unregister(c) ==
  /\ pc[c] = "except"
  /\ waiters' = unregister_reply_waiter(waiters, unregister_arg(c))
  /\ removed' = [i \in MsgIds |->
       IF i = unregister_arg(c) /\ i \in waiters THEN removed[i] + 1
       ELSE removed[i]]
  /\ outcome' = [outcome EXCEPT ![c] = Raised(translate(exc[c]))]
  /\ pc' = [pc EXCEPT ![c] = "done"]
  /\ UNCHANGED <<now, call, msg_id, self_msg_id, uuids, future,
                 inflight, attempt, conn, exc, send_outcome, lookups,
                 acquires, publishes, errs, expired_at_start, wait_end,
                 resolved, discarded>>
  /\ UNCHANGED <<wait_start, wait_timeout, answered, last_raw>>
  /\ UNCHANGED codec_vars

\* time passes
Tick ==
  /\ now < ClockEnd
  /\ now' = now + 1
  /\ UNCHANGED <<pc, call, msg_id, self_msg_id, uuids, waiters, future,
                 inflight, attempt, conn, exc, send_outcome, outcome, lookups,
                 acquires, publishes, errs, expired_at_start, wait_end,
                 resolved, removed, discarded>>
  /\ UNCHANGED <<wait_start, wait_timeout, answered, last_raw>>
  /\ UNCHANGED codec_vars

\* the caller whose send or reply the engine specification follows
MainCaller == CHOOSE c \in Callers : \A d \in Callers : c <= d

Next ==
  \/ Tick
  \/ PikaSend(MainCaller)
  \/ Reply(MainCaller)
  \/ RpcCast(MainCaller)
  \/ RpcCall(MainCaller)
  \/ RegisterWaiter(MainCaller)
  \/ PublishBegin(MainCaller)
  \/ Acquire(MainCaller)
  \/ ChannelPublish(MainCaller)
  \/ PublishConfirmed(MainCaller)
  \/ WaitResult(MainCaller)
  \/ WaitTimeout(MainCaller)
  \/ WaitInterrupted(MainCaller)
  \/ Unregister(MainCaller)
  \/ \E i \in MsgIds, c \in Callers : ReplyArrives(i, c)

(***************************************************************************)
(* Properties of the RPC call engine and of the publish path.              *)
(***************************************************************************)
\* the caller has ended a send that had started
SendEnded(c) ==
  /\ pc[c] = "done"
  /\ call[c].kind = "rpc_call" \/ attempt[c] >= 1

\* C1: when the reply wait of an RPC call ends with a timeout or any other
\* exception, the waiter registry holds no entry for the message id the call
\* generated and registered.
C1_WaiterRemovedAfterFailedWait ==
  \A c \in Callers :
    (pc[c] = "done" /\ wait_end[c] # "none" /\ outcome[c].status = "raised")
      => msg_id[c] \notin waiters

\* C2: a send whose expiration time is already in the past when it starts
\* makes no reply-queue lookup, acquires no connection, publishes nothing,
\* and fails with MessagingTimeout.
C2_ExpiredSendFailsFast ==
  \A c \in Callers :
    expired_at_start[c] =>
      /\ lookups[c] = 0 /\ acquires[c] = 0 /\ publishes[c] = 0
      /\ SendEnded(c) => send_outcome[c] = Raised(MessagingTimeout)

\* the part of C2 the code keeps: a send without a reply listener that
\* starts expired touches no collaborator and fails with MessagingTimeout
C2_ExpiredOneWayFailsFast ==
  \A c \in Callers :
    (expired_at_start[c] /\ call[c].kind # "rpc_call") =>
      /\ lookups[c] = 0 /\ acquires[c] = 0 /\ publishes[c] = 0
      /\ SendEnded(c) => send_outcome[c] = Raised(MessagingTimeout)

\* every failed attempt of the send raised ConnectionException
AllConnectionFailures(c) ==
  /\ Len(errs[c]) >= 1
  /\ \A i \in 1..Len(errs[c]) : errs[c][i] = ConnectionException

\* C3: under the reply retrier built from rpc_reply_retry_attempts = N > 0, a
\* publish that keeps failing with ConnectionException is attempted exactly
\* N + 1 times before the failure reaches the caller of send.
C3_RetriedNPlusOneTimes ==
  \A c \in Callers :
    ( /\ pc[c] = "done" /\ call[c].kind = "reply"
      /\ call[c].retrier.present /\ call[c].retrier.bounded
      /\ AllConnectionFailures(c)
      /\ send_outcome[c] = Raised(ConnectionException) )
      => Len(errs[c]) = call[c].retrier.stop_max_attempt_number + 1

\* what the code does in the case of C3: N attempts
C3_RetriedNTimes ==
  \A c \in Callers :
    ( /\ pc[c] = "done" /\ call[c].kind = "reply"
      /\ call[c].retrier.present /\ call[c].retrier.bounded
      /\ AllConnectionFailures(c)
      /\ send_outcome[c] = Raised(ConnectionException) )
      => Len(errs[c]) = call[c].retrier.stop_max_attempt_number

C6_CallOutcome ==
  \A c \in Callers :
    (pc[c] = "done" /\ wait_end[c] = "resolved") =>
      /\ future[msg_id[c]].state = "FINISHED"
      /\ future[msg_id[c]].kind = "result"
           => outcome[c] = Returned(future[msg_id[c]].value)
      /\ future[msg_id[c]].kind = "exception"
           => outcome[c] = Raised(future[msg_id[c]].value)

C6_Witness ==
  \E c \in Callers :
    /\ pc[c] = "done" /\ wait_end[c] = "resolved"
    /\ send_outcome[c] = Returned("None")
    /\ future[msg_id[c]] = FinishedFuture("exception", "ValueError")
    /\ outcome[c] = Raised("ValueError")

\* C7: when a reply races with the timeout of the reply wait, the entry of
\* the call's message id is resolved or removed exactly once by the time the
\* call has ended.
C7_ResolvedOrRemovedOnce ==
  \A c \in Callers :
    (pc[c] = "done" /\ wait_end[c] # "none") =>
      resolved[msg_id[c]] + removed[msg_id[c]] = 1

\* C12: a reply wait that times out raises MessagingTimeout, not the
\* futures.TimeoutError of the future; the wait was given the time left when
\* it began (expiration_time minus the time then), so it does not end before
\* the expiration time; any other exception of the wait is raised unchanged.
C12_WaitTimeoutTranslated ==
  \A c \in Callers :
    /\ (pc[c] = "wait" \/ wait_end[c] # "none")
         => wait_timeout[c] = call[c].expiration_time - wait_start[c]
    /\ wait_end[c] = "timeout" => now >= call[c].expiration_time
    /\ (pc[c] = "done" /\ wait_end[c] = "timeout")
         => outcome[c] = Raised(MessagingTimeout)
    /\ (pc[c] = "done" /\ wait_end[c] = "interrupted")
         => outcome[c] = Raised("KeyboardInterrupt")
    /\ (pc[c] = "done" /\ wait_end[c] = "resolved"
          /\ future[msg_id[c]].kind = "exception")
         => outcome[c] = Raised(future[msg_id[c]].value)

C12_Witness ==
  \E c \in Callers :
    /\ pc[c] = "done" /\ wait_end[c] = "timeout"
    /\ call[c].started < wait_start[c]
    /\ wait_start[c] < call[c].expiration_time
    /\ exc[c] = "futures.TimeoutError"
    /\ outcome[c] = Raised(MessagingTimeout)

\* C13: reply() never lets a failure of sending the reply through: whatever
\* kind the send raised, after retries or on an expired deadline, reply()
\* has logged it and returned.
C13_ReplyNeverRaises ==
  \A c \in Callers :
    (call[c].kind = "reply" /\ pc[c] = "done") =>
      /\ outcome[c].status = "returned"
      /\ send_outcome[c].status = "raised" => outcome[c] = Returned("logged")

C13_Witness ==
  \E c \in Callers :
    /\ call[c].kind = "reply" /\ pc[c] = "done"
    /\ call[c].retrier.present /\ call[c].retrier.bounded
    /\ errs[c] = <<ConnectionException, MessagingTimeout>>
    /\ last_raw[c] = "expired"
    /\ send_outcome[c] = Raised(MessagingTimeout)
    /\ outcome[c] = Returned("logged")

\* C14: the connection _publish acquired is given back on every way out of
\* the attempt (success, each failure, each retried attempt): a caller holds
\* one only inside the with block, and never while it waits for the reply,
\* handles the exception of the wait, or has ended.
C14_ConnectionReleased ==
  \A c \in Callers :
    /\ conn[c] => pc[c] \in {"channel_publish", "confirm"}
    /\ pc[c] \in {"wait", "except", "done", "publish", "acquire"} => ~conn[c]

C14_Witness ==
  \E c \in Callers :
    /\ pc[c] = "wait"
    /\ acquires[c] = 2 /\ publishes[c] = 2
    /\ errs[c] = <<ConnectionException>>
    /\ last_raw[c] = "ConnectionClosed"
    /\ ~conn[c]

\* the slot of the call's message id exists whenever a publish was issued
RegisteredBeforePublish(c) ==
  publishes[c] >= 1 => future[msg_id[c]].state # "NONE"

\* C15 as stated: within one RPC call the slot is registered before the
\* request is published, and no reply resolves the slot before the send (the
\* publish with its confirmation) has completed.
C15_NoReplyBeforeSendCompletes ==
  \A c \in Callers :
    call[c].kind = "rpc_call" =>
      /\ RegisteredBeforePublish(c)
      /\ future[msg_id[c]].state = "FINISHED"
           => send_outcome[c] = Returned("None")

\* C15 amended: the slot is registered before the request is published, and
\* no reply resolves it before the broker has taken the request; a reply can
\* resolve it while the publish still waits for its confirmation.
C15_NoReplyBeforePublish ==
  \A c \in Callers :
    call[c].kind = "rpc_call" =>
      /\ RegisteredBeforePublish(c)
      /\ future[msg_id[c]].state = "FINISHED"
           => /\ publishes[c] >= 1
              /\ pc[c] \in {"confirm", "wait", "except", "done"}

C15_Witness ==
  \E c \in Callers :
    /\ call[c].kind = "rpc_call"
    /\ pc[c] = "confirm"
    /\ publishes[c] = 1
    /\ send_outcome[c] = NoOutcome
    /\ future[msg_id[c]] = FinishedFuture("result", "r1")

\* C16: with several RPC calls outstanding at once, the calls have distinct
\* message ids, and a call whose wait found its slot resolved got the reply
\* that answers its own request, whatever the order of the replies: its
\* outcome is what that reply resolved the slot of its id with.
C16_OwnReplyOnly ==
  \A c \in Callers :
    /\ \A d \in Callers \ {c} :
         (msg_id[c] # NoId /\ msg_id[d] # NoId) => msg_id[c] # msg_id[d]
    /\ wait_end[c] = "resolved"
         => /\ future[msg_id[c]].state = "FINISHED"
            /\ answered[msg_id[c]] = c
            /\ resolved[msg_id[c]] = 1
    /\ (pc[c] = "done" /\ wait_end[c] = "resolved")
         => outcome[c] =
              IF future[msg_id[c]].kind = "result"
              THEN Returned(future[msg_id[c]].value)
              ELSE Raised(future[msg_id[c]].value)

\* the reply to the later call came first: that call has returned it and
\* the earlier call still waits
C16_Witness ==
  \E c, d \in Callers :
    /\ msg_id[c] # NoId /\ msg_id[c] < msg_id[d]
    /\ pc[c] = "wait" /\ future[msg_id[c]] = PendingFuture
    /\ <<msg_id[c], c>> \in inflight
    /\ pc[d] = "done" /\ wait_end[d] = "resolved"
    /\ answered[msg_id[d]] = d
    /\ outcome[d] = Returned("r2")

\* the kind each failure of a publish attempt is to be raised as
ExpectedKind(raw) ==
  CASE raw = "NackError" -> MessageRejectedException
    [] raw = "UnroutableError" -> RoutingException
    [] raw = "pika_pool.Timeout" -> MessagingTimeout
    [] raw = "expired" -> MessagingTimeout
    [] raw = "ChannelClosed404" -> ExchangeNotFoundException
    [] raw \in {"ChannelClosedOther", "ChannelClosedNoArgs",
                "ConnectionClosed", "AMQPConnectionError"} -> ConnectionException
    [] raw = "socket.timeout" -> TimeoutConnectionException

\* C18: every failure of a publish attempt (the last one, in every state) is
\* raised as one mapped kind:
\* nack as MessageRejectedException, unroutable as RoutingException, pool
\* timeout as MessagingTimeout, a closed channel with code 404 as
\* ExchangeNotFoundException, any other connectivity failure (a closed
\* channel with another code or none too) as ConnectionException, and a
\* socket timeout as TimeoutConnectionException.
C18_FailureMapping ==
  \A c \in Callers :
    /\ errs[c] = <<>> <=> last_raw[c] = "none"
    /\ errs[c] # <<>> => errs[c][Len(errs[c])] = ExpectedKind(last_raw[c])
    /\ (pc[c] = "done" /\ send_outcome[c].status = "raised")
         => send_outcome[c] = Raised(ExpectedKind(last_raw[c]))

C18_Witness ==
  \E c \in Callers :
    /\ pc[c] = "done"
    /\ last_raw[c] = "ChannelClosedNoArgs"
    /\ errs[c] = <<ConnectionException>>
    /\ send_outcome[c] = Raised(ConnectionException)

\* C19: when the publish of an RPC request fails after the waiter was
\* registered, the registry holds no entry for the call's message id once
\* send has raised.
C19_NoEntryAfterFailedPublish ==
  \A c \in Callers :
    ( /\ call[c].kind = "rpc_call" /\ pc[c] = "done"
      /\ future[msg_id[c]].state # "NONE"
      /\ send_outcome[c].status = "raised" )
      => msg_id[c] \notin waiters

\* the caller is inside _do_send
Sending(c) == pc[c] \in {"publish", "acquire", "channel_publish", "confirm"}

\* a _publish attempt that begins after the expiration time raises
\* MessagingTimeout to the caller of send, with no acquire and no publish
DeadlinePassedFailsFast ==
  \A c \in Callers :
    (pc[c] = "publish" /\ call[c].bounded /\ now > call[c].expiration_time
       /\ pc'[c] # pc[c])
      => /\ pc'[c] = "done"
         /\ send_outcome'[c] = Raised(MessagingTimeout)
         /\ acquires'[c] = acquires[c]
         /\ publishes'[c] = publishes[c]
         /\ attempt'[c] = attempt[c]

\* C20: every publish attempt, those of the retrier too, computes the time
\* left from the expiration time: an attempt after the deadline raises
\* MessagingTimeout without acquiring a connection and is not retried, so a
\* send with an expiration time ends, even with a retrier that never stops
\* and a broker that fails every publish with ConnectionException.
C20_BoundedSendTerminates ==
  /\ [][DeadlinePassedFailsFast]_vars
  /\ \A c \in Callers : (Sending(c) /\ call[c].bounded) ~> ~Sending(c)

C20_Witness ==
  \E c \in Callers :
    /\ call[c].bounded
    /\ call[c].retrier.present /\ ~call[c].retrier.bounded
    /\ pc[c] = "done"
    /\ last_raw[c] = "expired"
    /\ errs[c] = <<ConnectionException, ConnectionException, MessagingTimeout>>
    /\ attempt[c] = MaxPublishAttempts
    /\ send_outcome[c] = Raised(MessagingTimeout)

\* C21: at the publish checkpoint a remaining budget of exactly zero counts
\* as expired like a negative one: the attempt raises MessagingTimeout to the
\* caller of send, and pool.acquire and publish are not called.
ZeroBudgetFailsFast ==
  \A c \in Callers :
    (pc[c] = "publish" /\ call[c].bounded /\ Timeout(c) <= 0
       /\ pc'[c] # pc[c])
      => /\ pc'[c] = "done"
         /\ send_outcome'[c] = Raised(MessagingTimeout)
         /\ acquires'[c] = acquires[c]
         /\ publishes'[c] = publishes[c]

C21_ZeroBudgetFailsFast == [][ZeroBudgetFailsFast]_vars

\* what the code does at the checkpoint: only a negative budget fails fast
C21_NegativeBudgetFailsFast == [][DeadlinePassedFailsFast]_vars

(***************************************************************************)
(* The envelope codec.  Strings that the code takes apart are sequences of *)
(* characters; a dict is a function from such keys to Python values; a     *)
(* Python value carries its type.                                          *)
(***************************************************************************)
S_underscore == <<"_">>
S_context_ == <<"_", "c", "o", "n", "t", "e", "x", "t", "_">>
S_unique_id == <<"_", "u", "n", "i", "q", "u", "e", "_", "i", "d">>
S_msg_id == <<"_", "m", "s", "g", "_", "i", "d">>
S_reply_q == <<"_", "r", "e", "p", "l", "y", "_", "q">>
S_result == <<"_", "r", "e", "s", "u", "l", "t">>
S_failure == <<"_", "f", "a", "i", "l", "u", "r", "e">>
\* attribute names of the incoming message object
A_pika_engine == <<"_", "p", "i", "k", "a", "_", "e", "n", "g", "i", "n", "e">>
A_no_ack == <<"_", "n", "o", "_", "a", "c", "k">>
A_channel == <<"_", "c", "h", "a", "n", "n", "e", "l">>
A_delivery_tag == <<"d", "e", "l", "i", "v", "e", "r", "y", "_", "t", "a", "g">>
A_version == <<"v", "e", "r", "s", "i", "o", "n">>
A_content_type == <<"c", "o", "n", "t", "e", "n", "t", "_", "t", "y", "p", "e">>
A_content_encoding ==
  <<"c", "o", "n", "t", "e", "n", "t", "_", "e", "n", "c", "o", "d", "i", "n", "g">>
A_expiration_time ==
  <<"e", "x", "p", "i", "r", "a", "t", "i", "o", "n", "_", "t", "i", "m", "e">>
A_message == <<"m", "e", "s", "s", "a", "g", "e">>
A_ctxt == <<"c", "t", "x", "t">>
A_msg_id == Tail(S_msg_id)
A_reply_q == Tail(S_reply_q)
A_result == Tail(S_result)
A_failure == Tail(S_failure)

\* key.startswith(prefix)
startswith(key, prefix) ==
  Len(key) >= Len(prefix) /\ SubSeq(key, 1, Len(prefix)) = prefix
\* key[n:]
Slice(key, n) == SubSeq(key, n + 1, Len(key))

PyInt(n) == [t |-> "int", n |-> n]
PyStr(x) == [t |-> "str", s |-> x]
PyBool(b) == [t |-> "bool", b |-> b]
PyNone == [t |-> "NoneType"]
PyList(l) == [t |-> "list", l |-> l]
PyTuple(l) == [t |-> "tuple", l |-> l]
PyDict(d) == [t |-> "dict", d |-> d]
\* failure_data of reply(): {'class', 'module', 'message', 'tb'}
PyFailure(class, module, message, tb) ==
  [t |-> "dict", class |-> class, module |-> module, message |-> message,
   tb |-> tb]
IsFailureData(v) == v.t = "dict" /\ "module" \in DOMAIN v

EmptyDict == [k \in {} |-> PyNone]
DictSet(d, k, v) == [x \in DOMAIN d \cup {k} |-> IF x = k THEN v ELSE d[x]]
DictPop(d, k) == [x \in DOMAIN d \ {k} |-> d[x]]

\* the orders in which the keys of a dict can be iterated
RECURSIVE Orders(_)
Orders(S) ==
  IF S = {} THEN {<<>>}
  ELSE UNION {{<<x>> \o o : o \in Orders(S \ {x})} : x \in S}

\* jsonutils.dumps and jsonutils.loads: a JSON value carries its JSON type;
\* a tuple is written as an array and an array is read as a list
ToJson(v) ==
  IF v.t = "int" THEN [j |-> "number", n |-> v.n]
  ELSE IF v.t = "str" THEN [j |-> "string", s |-> v.s]
  ELSE IF v.t = "bool" THEN [j |-> "boolean", b |-> v.b]
  ELSE IF v.t = "NoneType" THEN [j |-> "null"]
  ELSE IF v.t \in {"list", "tuple"} THEN [j |-> "array", l |-> v.l]
  ELSE [j |-> "object", class |-> v.class, module |-> v.module,
        message |-> v.message, tb |-> v.tb]

FromJson(x) ==
  IF x.j = "number" THEN PyInt(x.n)
  ELSE IF x.j = "string" THEN PyStr(x.s)
  ELSE IF x.j = "boolean" THEN PyBool(x.b)
  ELSE IF x.j = "null" THEN PyNone
  ELSE IF x.j = "array" THEN PyList(x.l)
  ELSE PyFailure(x.class, x.module, x.message, x.tb)

\* the body: the members of the JSON object in the order dumps wrote them
jsonutils_dumps(msg_dict, order) ==
  [i \in 1..Len(order) |-> [key |-> order[i], value |-> ToJson(msg_dict[order[i]])]]

RECURSIVE loads_members(_, _)
loads_members(d, body) ==
  IF body = <<>> THEN d
  ELSE loads_members(DictSet(d, Head(body).key, FromJson(Head(body).value)),
                     Tail(body))
jsonutils_loads(body) == loads_members(EmptyDict, body)

(***************************************************************************)
(* PikaOutgoingMessage._prepare_message_to_send                            *)
(***************************************************************************)
\* for key, value in self.context.iteritems(): msg['_context_' + key] = value
RECURSIVE context_loop(_, _, _)
context_loop(msg, context, order) ==
  IF order = <<>> THEN msg
  ELSE context_loop(DictSet(msg, S_context_ \o Head(order), context[Head(order)]),
                    context, Tail(order))

\* the dict that is sent (a copy of self.message with the added keys), and
\* self.message as the method leaves it
prepare_message_to_send(message, context, unique_id, order) ==
  LET msg == context_loop(DictSet(message, S_unique_id, PyStr(unique_id)),
                          context, order)
  IN [msg_dict |-> msg, self_message |-> message]

(***************************************************************************)
(* The incoming messages.  An object under construction is a record: the   *)
(* exception its constructor raised ("none" when it returned), its         *)
(* attributes, and what the constructor called on the way.                 *)
(***************************************************************************)
NewObject(attrs) ==
  [raised |-> "none", attrs |-> attrs, loads_calls |-> 0, imports |-> {},
   getattrs |-> {}]

\* utils.version_is_compatible(version, _VERSION) with _VERSION = "1.0":
\* the same major line; no version is not compatible
version_is_compatible(headers) == headers.has_version /\ headers.major = 1

\* a check that accepts every content type
content_type_any(content_type) == TRUE
\* self.content_type != "application/json" is false
content_type_supported(content_type) == content_type = PyStr("application/json")

PyVersion(headers) ==
  IF headers.has_version
  THEN [t |-> "str", major |-> headers.major, minor |-> headers.minor]
  ELSE PyNone

\* None if properties.expiration is None else
\* time.time() + float(properties.expiration) / 1000
expiration_time_of(expiration, time) ==
  IF expiration.bounded THEN PyInt(time + expiration.ms \div 1000) ELSE PyNone

\* a slice that keeps the last character of the prefix
slice_context_short(key) == Slice(key, 8)
\* key[9:], the context key without '_context_'
slice_context(key) == Slice(key, 9)

\* the loop over list(message_dict.keys()), in the order the keys come

RECURSIVE partition_loop(_, _)
partition_loop(st, order) ==
  IF order = <<>> THEN st
  ELSE LET key == Head(order)
           value == st.message_dict[key]
       IN partition_loop(
            IF startswith(key, S_context_)
            THEN [st EXCEPT !.message_dict = DictPop(@, key),
                            !.context_dict = DictSet(@, slice_context(key), value)]
            ELSE IF startswith(key, S_underscore)
            THEN [st EXCEPT !.message_dict = DictPop(@, key),
                            !.attrs = DictSet(@, Slice(key, 1), value)]
            ELSE st,
            Tail(order))

\* PikaIncomingMessage.__init__ on an object whose subclass has set attrs0;
\* key_order is the order in which list(message_dict.keys()) lists the keys
PikaIncomingMessage_init(attrs0, channel, delivery_tag, properties, body, no_ack, key_order, time) ==
  LET headers == properties.headers
      o0 == NewObject(attrs0)
  IN
  IF ~headers.present THEN [o0 EXCEPT !.raised = "AttributeError"]
  ELSE IF ~version_is_compatible(headers)
  THEN [o0 EXCEPT !.raised = "UnsupportedDriverVersion"]
  ELSE
    LET a1 == DictSet(attrs0, A_pika_engine, PyStr("pika_engine"))
        a2 == DictSet(a1, A_no_ack, PyBool(no_ack))
        a3 == DictSet(a2, A_channel, PyStr(channel))
        a4 == DictSet(a3, A_delivery_tag, PyInt(delivery_tag))
        a5 == DictSet(a4, A_version, PyVersion(headers))
        a6 == DictSet(a5, A_content_type, properties.content_type)
        a7 == DictSet(a6, A_content_encoding, properties.content_encoding)
        a8 == DictSet(a7, A_expiration_time,
                      expiration_time_of(properties.expiration, time))
    IN
    IF ~content_type_supported(properties.content_type)
    THEN [o0 EXCEPT !.raised = "NotImplementedError", !.attrs = a8]
    ELSE
      LET loaded == jsonutils_loads(body)
          st == partition_loop(
                  [message_dict |-> loaded, context_dict |-> EmptyDict,
                   attrs |-> a8],
                  key_order)
          a9 == DictSet(st.attrs, A_message, PyDict(st.message_dict))
          a10 == DictSet(a9, A_ctxt, PyDict(st.context_dict))
      IN [o0 EXCEPT !.attrs = a10, !.loads_calls = 1]

(***************************************************************************)
(* RpcReplyPikaIncomingMessage.__init__: the remote failure.               *)
(***************************************************************************)
\* pika_engine.allowed_remote_exmods
AllowedRemoteExmods == {"exceptions", "nomodule"}
\* the modules importutils.import_module finds, and their classes
InstalledModules == {"exceptions", "os"}
ModuleClasses(module) == IF module = "exceptions" THEN {"ValueError"} ELSE {}

\* a check that takes every module for allowed
module_allowed_any(module_name) == TRUE
\* module_name in pika_engine.allowed_remote_exmods
module_allowed(module_name) == module_name \in AllowedRemoteExmods

\* oslo_messaging.RemoteError(class_name, message, trace)
RemoteError(class_name, message, trace) ==
  [t |-> "RemoteError", exc_type |-> class_name, value |-> message,
   traceback |-> trace]

\* ex_type(module_name, class_name, message, trace), RemoteExceptionMixin
\* first among the bases of ex_type
RemoteExceptionMixin_init(module, clazz, message, trace) ==
  [t |-> "RemoteExceptionMixin", module |-> module, clazz |-> clazz,
   message |-> message, trace |-> trace, str_msgs |-> <<message>> \o trace]

\* the block under `if self.failure is not None`
reply_failure_block(o) ==
  LET failure == o.attrs[A_failure] IN
  IF failure = PyNone THEN o
  ELSE IF ~IsFailureData(failure) THEN [o EXCEPT !.raised = "AttributeError"]
  ELSE
    LET trace == failure.tb
        message == failure.message
        class_name == failure.class
        module_name == failure.module
        generic == RemoteError(class_name, message, trace)
    IN
    IF module_allowed(module_name)
    THEN IF module_name \notin InstalledModules
         THEN \* ImportError: caught and logged
              [o EXCEPT !.imports = @ \cup {module_name},
                        !.attrs = DictSet(@, A_failure, generic)]
         ELSE IF class_name \notin ModuleClasses(module_name)
         THEN \* getattr raises AttributeError, which no clause catches
              [o EXCEPT !.imports = @ \cup {module_name},
                        !.getattrs = @ \cup {<<module_name, class_name>>},
                        !.raised = "AttributeError"]
         ELSE [o EXCEPT !.imports = @ \cup {module_name},
                        !.getattrs = @ \cup {<<module_name, class_name>>},
                        !.attrs = DictSet(@, A_failure,
                          RemoteExceptionMixin_init(module_name, class_name,
                                                    message, trace))]
    ELSE [o EXCEPT !.attrs = DictSet(@, A_failure, generic)]

\* the constructors of the three classes
IncomingClasses ==
  {"PikaIncomingMessage", "RpcPikaIncomingMessage", "RpcReplyPikaIncomingMessage"}

ClassDefaults(cls) ==
  IF cls = "RpcPikaIncomingMessage"
  THEN DictSet(DictSet(EmptyDict, A_msg_id, PyNone), A_reply_q, PyNone)
  ELSE IF cls = "RpcReplyPikaIncomingMessage"
  THEN DictSet(DictSet(EmptyDict, A_result, PyNone), A_failure, PyNone)
  ELSE EmptyDict

Incoming_init(cls, channel, delivery_tag, properties, body, no_ack, key_order, time) ==
  LET o == PikaIncomingMessage_init(ClassDefaults(cls), channel, delivery_tag,
                                    properties, body, no_ack, key_order, time)
  IN IF cls = "RpcReplyPikaIncomingMessage" /\ o.raised = "none"
     THEN reply_failure_block(o)
     ELSE o

(***************************************************************************)
(* One message from its sender to a consumer.                              *)
(***************************************************************************)
\* at most this many keys in a payload a caller hands over
MaxPayloadKeys == 2

UserKeys == {<<"a">>, S_underscore \o A_no_ack, S_context_ \o <<"u">>}
UserValues == {PyInt(1), PyTuple(<<"x">>)}
ContextKeys == {<<"u">>, <<"a">>}
ContextValues == {PyStr("u1"), PyTuple(<<"x">>)}

Dicts(keys, values, max) ==
  UNION {[D -> values] : D \in {K \in SUBSET keys : Cardinality(K) <= max}}

FailureRecords ==
  {PyFailure(class, module, "boom", <<"line 1", "line 2">>) :
     class \in {"ValueError", "NoSuchClass"},
     module \in {"exceptions", "os", "nomodule"}}

\* msg of RpcPikaIncomingMessage.reply: '_msg_id', and '_failure' and
\* '_result' when given
ReplyPayloads ==
  {DictSet(S_msg_id :> PyStr("m1"), S_failure, f) : f \in FailureRecords}
  \cup {DictSet(S_msg_id :> PyStr("m1"), S_result, PyInt(1))}
  \cup {S_msg_id :> PyStr("m1")}

Payloads == Dicts(UserKeys, UserValues, MaxPayloadKeys) \cup ReplyPayloads
Contexts == Dicts(ContextKeys, ContextValues, Cardinality(ContextKeys))

\* headers={_VERSION_HEADER: _VERSION}
OwnHeaders == [present |-> TRUE, has_version |-> TRUE, major |-> 1, minor |-> 0]
\* the headers other senders put on a message: none at all, none naming a
\* version, or a version
ForeignHeaders ==
  {[present |-> FALSE, has_version |-> FALSE, major |-> 0, minor |-> 0],
   [present |-> TRUE, has_version |-> FALSE, major |-> 0, minor |-> 0]}
  \cup {[present |-> TRUE, has_version |-> TRUE, major |-> v[1], minor |-> v[2]] :
          v \in {<<1, 0>>, <<1, 1>>, <<2, 0>>}}
ContentTypes == {PyStr("application/json"), PyStr("text/plain"), PyNone}
WireExpirations == {[bounded |-> FALSE, ms |-> 0], [bounded |-> TRUE, ms |-> 1000]}

NoWire ==
  [sent |-> FALSE, sender |-> "none",
   properties |-> [headers |-> OwnHeaders, content_type |-> PyNone,
                   content_encoding |-> PyNone,
                   expiration |-> [bounded |-> FALSE, ms |-> 0]],
   body |-> <<>>]
NoIncoming ==
  [cls |-> "none", no_ack |-> FALSE, channel |-> "none", delivery_tag |-> 0,
   obj |-> NewObject(EmptyDict), op |-> "none", channel_calls |-> <<>>]

CodecIdle ==
  /\ self_message = EmptyDict
  /\ self_context = EmptyDict
  /\ message0 = EmptyDict
  /\ wire = NoWire
  /\ incoming = NoIncoming

\* the engine specification: nothing is on the wire
Init == InitEngine /\ CodecIdle

\* PikaOutgoingMessage.__init__(pika_engine, message, context)
InitCodec ==
  /\ InitEngine
  /\ self_message \in Payloads
  /\ self_context \in Contexts
  /\ message0 = self_message
  /\ wire = NoWire
  /\ incoming = NoIncoming

\* the order in which jsonutils.dumps writes the members
RECURSIVE SomeOrder(_)
SomeOrder(S) ==
  IF S = {} THEN <<>>
  ELSE LET x == CHOOSE x \in S : TRUE IN <<x>> \o SomeOrder(S \ {x})
DumpOrder(d) == SomeOrder(DOMAIN d)

\* PikaOutgoingMessage.send: _prepare_message_to_send, then _do_send builds
\* the properties and the body; _publish sets the expiration
Send ==
  /\ ~wire.sent
  /\ \E order \in Orders(DOMAIN self_context), e \in WireExpirations :
       LET r == prepare_message_to_send(self_message, self_context, "uid1", order)
       IN /\ self_message' = r.self_message
          /\ wire' = [sent |-> TRUE, sender |-> "pika",
                      properties |->
                        [headers |-> OwnHeaders,
                         content_type |-> PyStr("application/json"),
                         content_encoding |-> PyStr("utf-8"),
                         expiration |-> e],
                      body |-> jsonutils_dumps(r.msg_dict, DumpOrder(r.msg_dict))]
  /\ UNCHANGED <<self_context, message0, incoming>>
  /\ UNCHANGED engine_vars

\* another program publishes a body of the same shape under its own
\* headers and content type
ForeignSend ==
  /\ ~wire.sent
  /\ \E h \in ForeignHeaders, ct \in ContentTypes :
       LET r == prepare_message_to_send(self_message, self_context, "uid1",
                                        SomeOrder(DOMAIN self_context))
       IN wire' = [sent |-> TRUE, sender |-> "foreign",
                   properties |->
                     [headers |-> h, content_type |-> ct,
                      content_encoding |-> PyStr("utf-8"),
                      expiration |-> [bounded |-> FALSE, ms |-> 0]],
                   body |-> jsonutils_dumps(r.msg_dict, DumpOrder(r.msg_dict))]
  /\ UNCHANGED <<self_message, self_context, message0, incoming>>
  /\ UNCHANGED engine_vars

\* the orders in which the constructor can list the keys of the decoded
\* body: it lists them only when it gets as far as decoding it
KeyOrders(properties, body) ==
  IF PikaIncomingMessage_init(EmptyDict, "channel", 1, properties, body,
                              FALSE, <<>>, 0).loads_calls = 0
  THEN {<<>>}
  ELSE Orders({body[i].key : i \in DOMAIN body})

\* a consumer builds an incoming message of class cls from the envelope
Receive(cls) ==
  /\ wire.sent
  /\ incoming.cls = "none"
  /\ \E no_ack \in BOOLEAN, order \in KeyOrders(wire.properties, wire.body) :
       incoming' =
         [cls |-> cls, no_ack |-> no_ack, channel |-> "channel", delivery_tag |-> 2,
          obj |-> Incoming_init(cls, "channel", 2, wire.properties, wire.body,
                                no_ack, order, now),
          op |-> "none", channel_calls |-> <<>>]
  /\ UNCHANGED <<self_message, self_context, message0, wire>>
  /\ UNCHANGED engine_vars

\* the truth value Python gives a value in `if not self._no_ack`
truthy(v) ==
  IF v.t = "bool" THEN v.b
  ELSE IF v.t = "int" THEN v.n # 0
  ELSE IF v.t = "str" THEN v.s # ""
  ELSE IF v.t \in {"list", "tuple"} THEN v.l # <<>>
  ELSE IF v.t = "NoneType" THEN FALSE
  ELSE TRUE

\* the calls acknowledge() makes on self._channel
acknowledge(attrs) ==
  IF ~truthy(attrs[A_no_ack])
  THEN <<[method |-> "basic_ack", channel |-> attrs[A_channel],
          delivery_tag |-> attrs[A_delivery_tag], requeue |-> FALSE]>>
  ELSE <<>>

\* the calls requeue() makes on self._channel
requeue(attrs) ==
  IF ~truthy(attrs[A_no_ack])
  THEN <<[method |-> "basic_nack", channel |-> attrs[A_channel],
          delivery_tag |-> attrs[A_delivery_tag], requeue |-> TRUE]>>
  ELSE <<>>

\* the message processing calls acknowledge() on a message it was given
Acknowledge ==
  /\ incoming.cls # "none"
  /\ incoming.obj.raised = "none"
  /\ incoming.op = "none"
  /\ incoming' = [incoming EXCEPT !.op = "acknowledge",
                     !.channel_calls = acknowledge(incoming.obj.attrs)]
  /\ UNCHANGED <<self_message, self_context, message0, wire>>
  /\ UNCHANGED engine_vars

\* the message processing calls requeue() on a message it was given
Requeue ==
  /\ incoming.cls # "none"
  /\ incoming.obj.raised = "none"
  /\ incoming.op = "none"
  /\ incoming' = [incoming EXCEPT !.op = "requeue",
                     !.channel_calls = requeue(incoming.obj.attrs)]
  /\ UNCHANGED <<self_message, self_context, message0, wire>>
  /\ UNCHANGED engine_vars

NextCodec ==
  \/ Send
  \/ ForeignSend
  \/ \E cls \in IncomingClasses : Receive(cls)
  \/ Acknowledge
  \/ Requeue

Spec == Init /\ [][Next]_vars

\* the clock advances, and a thread inside _publish goes on: acquire and
\* publish return or raise
SpecLive ==
  /\ Init /\ [][Next]_vars
  /\ WF_vars(Tick)
  /\ WF_vars(PublishBegin(MainCaller))
  /\ WF_vars(Acquire(MainCaller))
  /\ WF_vars(ChannelPublish(MainCaller))
  /\ WF_vars(PublishConfirmed(MainCaller))

\* several threads call RpcPikaOutgoingMessage.send with one reply listener
\* at the same time, each without a retrier and with the last expiration
\* time, within the instant in which that time is reached
InitConcurrent == now = MaxTime /\ NoCalls /\ CodecIdle

ConcurrentCall(c) ==
  RpcCallWith(c, {[bounded |-> TRUE, at |-> MaxTime]}, {NoRetrier})

NextConcurrent ==
  \/ \E c \in Callers :
       \/ ConcurrentCall(c)
       \/ RegisterWaiter(c)
       \/ PublishBegin(c)
       \/ Acquire(c)
       \/ ChannelPublish(c)
       \/ PublishConfirmed(c)
       \/ WaitResult(c)
       \/ WaitTimeout(c)
       \/ WaitInterrupted(c)
       \/ Unregister(c)
  \/ \E i \in MsgIds, c \in Callers : ReplyArrives(i, c)

SpecConcurrent == InitConcurrent /\ [][NextConcurrent]_vars

SpecCodec == InitCodec /\ [][NextCodec]_vars

(***************************************************************************)
(* Properties of the codec and of the incoming messages.                   *)
(***************************************************************************)
\* a message of this driver was sent and a consumer has built its object
RoundTripDone ==
  wire.sender = "pika" /\ incoming.cls # "none" /\ incoming.op = "none"

\* the decoded message and context are the sender's, whose payload is as
\* it was handed over
RoundTripExact ==
  /\ incoming.obj.raised = "none"
  /\ incoming.obj.attrs[A_message] = PyDict(message0)
  /\ incoming.obj.attrs[A_ctxt] = PyDict(self_context)
  /\ self_message = message0

\* a value that jsonutils.dumps and loads give back as it was
JsonNative(v) == v.t \in {"int", "str", "bool", "NoneType", "list", "dict"}

\* C5 as stated: for every payload and every context, encoding and then
\* decoding gives back the payload as message and the context as ctxt, and
\* leaves the sender's payload unmodified.
C5_RoundTripEveryPayload == RoundTripDone => RoundTripExact

\* C5 amended: the round trip is exact for every payload none of whose keys
\* starts with '_' and every context, when the values of both are values
\* JSON gives back unchanged; this whatever the iteration orders are.
C5_RoundTripPlainKeys ==
  ( /\ RoundTripDone
    /\ \A k \in DOMAIN message0 :
         ~startswith(k, S_underscore) /\ JsonNative(message0[k])
    /\ \A k \in DOMAIN self_context : JsonNative(self_context[k]) )
    => RoundTripExact

C5_Witness ==
  /\ RoundTripDone
  /\ message0 = (<<"a">> :> PyInt(1))
  /\ self_context = [k \in ContextKeys |-> PyStr("u1")]
  /\ RoundTripExact
  /\ incoming.obj.attrs[Tail(S_unique_id)] = PyStr("uid1")

\* the failure record the sender put under '_failure', when it did
SentFailure == S_failure \in DOMAIN message0
\* an RPC reply object was built and its constructor decoded the body
ReplyDecoded ==
  /\ incoming.cls = "RpcReplyPikaIncomingMessage"
  /\ incoming.obj.loads_calls = 1
  /\ SentFailure

GenericFailure ==
  RemoteError(message0[S_failure].class, message0[S_failure].message,
              message0[S_failure].tb)

\* C8: a failure record whose module is not in allowed_remote_exmods causes
\* no import and no class lookup, and the failure of the message is the
\* generic RemoteError.
C8_NotAllowedNeverImported ==
  ( /\ incoming.cls = "RpcReplyPikaIncomingMessage"
    /\ SentFailure
    /\ message0[S_failure].module \notin AllowedRemoteExmods )
    => /\ incoming.obj.imports = {}
       /\ incoming.obj.getattrs = {}
       /\ incoming.obj.loads_calls = 1
            => /\ incoming.obj.raised = "none"
               /\ incoming.obj.attrs[A_failure] = GenericFailure

C8_Witness ==
  /\ ReplyDecoded
  /\ message0[S_failure].module = "os"
  /\ "os" \in InstalledModules
  /\ incoming.obj.raised = "none"
  /\ incoming.obj.attrs[A_failure] = GenericFailure

\* C9: when the module is allow-listed and the import or the class lookup
\* fails, the constructor does not raise and the failure of the message is
\* the generic RemoteError.
C9_ResolutionFailureFallsBack ==
  ( /\ ReplyDecoded
    /\ message0[S_failure].module \in AllowedRemoteExmods
    /\ \/ message0[S_failure].module \notin InstalledModules
       \/ message0[S_failure].class
            \notin ModuleClasses(message0[S_failure].module) )
    => /\ incoming.obj.raised = "none"
       /\ incoming.obj.attrs[A_failure] = GenericFailure

\* the half of C9 the code keeps: a module that cannot be imported
C9_ImportErrorFallsBack ==
  ( /\ ReplyDecoded
    /\ message0[S_failure].module \in AllowedRemoteExmods
    /\ message0[S_failure].module \notin InstalledModules )
    => /\ incoming.obj.raised = "none"
       /\ incoming.obj.attrs[A_failure] = GenericFailure

\* the attributes the constructor sets before it looks at the content type
EnvelopeAttrs ==
  {A_pika_engine, A_no_ack, A_channel, A_delivery_tag, A_version,
   A_content_type, A_content_encoding, A_expiration_time}

\* C10: an envelope of a compatible version whose content type is not
\* application/json makes the constructor raise NotImplementedError (the
\* unsupported-content-type error) before jsonutils.loads is called; no
\* payload, context or system field is extracted.
C10_ContentTypeBeforeParse ==
  ( /\ incoming.cls # "none"
    /\ wire.properties.headers.present
    /\ version_is_compatible(wire.properties.headers)
    /\ wire.properties.content_type # PyStr("application/json") )
    => /\ incoming.obj.raised = "NotImplementedError"
       /\ incoming.obj.loads_calls = 0
       /\ DOMAIN incoming.obj.attrs
            = EnvelopeAttrs \cup DOMAIN ClassDefaults(incoming.cls)
       /\ \A a \in DOMAIN ClassDefaults(incoming.cls) :
            incoming.obj.attrs[a] = PyNone

C10_Witness ==
  /\ incoming.cls = "RpcReplyPikaIncomingMessage"
  /\ wire.properties.headers.has_version
  /\ wire.properties.headers.minor = 1
  /\ wire.properties.content_type = PyStr("text/plain")
  /\ SentFailure
  /\ incoming.obj.raised = "NotImplementedError"
  /\ incoming.obj.loads_calls = 0

\* the envelope names no version, or one of another major line than 1.0
VersionAbsentOrIncompatible(headers) ==
  \/ ~headers.present
  \/ ~headers.has_version
  \/ headers.major # 1

\* the constructor of PikaIncomingMessage raised UnsupportedDriverVersion
\* before it did anything else
RejectedByVersion ==
  /\ incoming.obj.raised = "UnsupportedDriverVersion"
  /\ incoming.obj.loads_calls = 0
  /\ incoming.obj.attrs = ClassDefaults(incoming.cls)

\* C11: an envelope whose version header is absent or incompatible with 1.0
\* makes the constructor raise UnsupportedDriverVersion before any other
\* step: the body is not parsed and PikaIncomingMessage.__init__ sets no
\* attribute of the object.
C11_VersionCheckedFirst ==
  (incoming.cls # "none" /\ VersionAbsentOrIncompatible(wire.properties.headers))
    => RejectedByVersion

\* the part of C11 the code keeps: the envelope has a header mapping
C11_HeadersGivenVersionCheckedFirst ==
  ( /\ incoming.cls # "none"
    /\ wire.properties.headers.present
    /\ VersionAbsentOrIncompatible(wire.properties.headers) )
    => RejectedByVersion

\* what the channel is asked when the handle operation reaches it: one call,
\* keyed by the delivery tag the message arrived with
ExpectedChannelCalls ==
  IF incoming.no_ack THEN <<>>
  ELSE <<[method |-> IF incoming.op = "acknowledge" THEN "basic_ack"
                     ELSE "basic_nack",
          channel |-> PyStr(incoming.channel),
          delivery_tag |-> PyInt(incoming.delivery_tag),
          requeue |-> incoming.op = "requeue"]>>

\* C17: for a message received in no-ack mode acknowledge() and requeue()
\* call nothing on the channel; for a message received with acknowledgment
\* required acknowledge() makes exactly one basic_ack and requeue() exactly
\* one basic_nack with requeue=True, with the delivery tag of the arrival.
C17_HandleOperations ==
  incoming.op # "none" => incoming.channel_calls = ExpectedChannelCalls

\* the body has no key that names an attribute of the delivery handle
NoHandleKeys ==
  \A i \in DOMAIN wire.body :
    wire.body[i].key \notin
      {S_underscore \o A_no_ack, S_underscore \o A_channel,
       S_underscore \o A_delivery_tag}

\* the part of C17 the code keeps: bodies without such keys
C17_HandleOperationsPlainBody ==
  (incoming.op # "none" /\ NoHandleKeys)
    => incoming.channel_calls = ExpectedChannelCalls

\* the failure object the reply constructor left in self.failure
DecodedFailure == incoming.obj.attrs[A_failure]

\* the constructor ended with the generic RemoteError as the failure
GenericProduced ==
  /\ ReplyDecoded
  /\ incoming.obj.raised = "none"
  /\ DecodedFailure.t = "RemoteError"

\* the class name, message and trace lines a failure object carries
CarriesClassMessageTrace(f, record) ==
  IF f.t = "RemoteError"
  THEN /\ f.exc_type = record.class
       /\ f.value = record.message
       /\ f.traceback = record.tb
  ELSE /\ f.clazz = record.class
       /\ f.message = record.message
       /\ f.trace = record.tb

\* the failure object carries the module name of the record
CarriesModule(f, record) ==
  "module" \in DOMAIN f /\ f.module = record.module

\* C22: whenever the reply constructor produces the generic RemoteError
\* (module not allow-listed, or the import failed), that object carries the
\* four fields of the failure record: module name, class name, message and
\* trace lines, as a reconstructed failure does.
C22_GenericCarriesFourFields ==
  GenericProduced
    => /\ CarriesClassMessageTrace(DecodedFailure, message0[S_failure])
       /\ CarriesModule(DecodedFailure, message0[S_failure])

\* the part of C22 the code keeps: the generic object carries class name,
\* message and trace lines, and a reconstructed failure all four fields
C22_GenericCarriesThreeFields ==
  /\ GenericProduced
       => CarriesClassMessageTrace(DecodedFailure, message0[S_failure])
  /\ ( /\ ReplyDecoded
       /\ incoming.obj.raised = "none"
       /\ DecodedFailure.t = "RemoteExceptionMixin" )
       => /\ CarriesClassMessageTrace(DecodedFailure, message0[S_failure])
          /\ CarriesModule(DecodedFailure, message0[S_failure])

\* PikaIncomingMessage.__init__ returned without raising
Constructed == incoming.cls # "none" /\ incoming.obj.raised = "none"

\* the delivery handle is the one the consumer passed to the constructor
HandleFromArguments ==
  /\ incoming.obj.attrs[A_no_ack] = PyBool(incoming.no_ack)
  /\ incoming.obj.attrs[A_channel] = PyStr(incoming.channel)
  /\ incoming.obj.attrs[A_delivery_tag] = PyInt(incoming.delivery_tag)

\* C23: for every body, keys with the reserved prefix included, after
\* PikaIncomingMessage.__init__ the no-ack flag, channel and delivery tag
\* that acknowledge() and requeue() use equal the no_ack, channel and
\* method.delivery_tag passed to the constructor.
C23_HandleFromArgumentsOnly == Constructed => HandleFromArguments

\* the part of C23 the code keeps: bodies without a key that names an
\* attribute of the delivery handle
C23_HandleFromArgumentsPlainBody ==
  (Constructed /\ NoHandleKeys) => HandleFromArguments

====
